---- MODULE Spec2Model ----
(***************************************************************************)
(* Users API: register / login / profile (services/user.service.js,        *)
(* controllers/user.controller.js, repositories/user.repository.js) and    *)
(* the JWT gate (middlewares/auth.middleware.js).                          *)
(*                                                                         *)
(* Every request is a process.  A step of a process runs from one await    *)
(* to the next: Node runs the code between two awaits without interleaving *)
(* and each SQL statement is executed atomically by the database.          *)
(***************************************************************************)
EXTENDS Integers, Sequences, FiniteSets, TLC

(* ------------------------------ bounds -------------------------------- *)

\* number of HTTP requests that are served (concurrently) in one behaviour
NumRequests == 2

\* number of events from outside the service in one behaviour: the wall
\* clock is advanced, an account's row is removed from the table
MaxTicks == 1

Requests == 1..NumRequests

(* ------------------------------ values -------------------------------- *)

\* a JavaScript value that may be undefined: <<>> is undefined, <<v>> is v
Undefined == <<>>
Some(v) == <<v>>

\* a string of n copies of the character c
Rep(c, n) == [i \in 1..n |-> c]

\* passwords are strings of characters (bcrypt looks at their bytes)
PwSecret == <<"s", "e", "c", "r", "e", "t">>
PwLong72 == Rep("a", 72)
PwLong73 == Rep("a", 72) \o <<"b">>
PwEmpty == <<>>

Names == {"Ana"}
Emails == {"ana@x.com", "bob@x.com"}

\* !v of JavaScript for an optional string: undefined and "" are falsy
FalsyStr(v) == v = Undefined \/ v[1] = ""
\* variant: only an absent password is refused, an empty one is not
FalsyPwAbsentOnly(v) == v = Undefined

\* !v for an optional password string
FalsyPw(v) == v = Undefined \/ v[1] = PwEmpty

\* request bodies of POST /register
RegisterBodies ==
    [name : {Some(n) : n \in Names},
     email : {Some(e) : e \in Emails},
     password : {Some(PwSecret), Some(PwLong72)}]
    \cup {[name |-> Undefined, email |-> Some("ana@x.com"), password |-> Some(PwSecret)],
          [name |-> Some("Ana"), email |-> Some("ana@x.com"), password |-> Some(PwEmpty)]}

\* request bodies of POST /login
LoginBodies ==
    [email : {Some(e) : e \in Emails},
     password : {Some(PwSecret), Some(PwLong73)}]
    \cup {[email |-> Some(""), password |-> Some(PwSecret)],
          [email |-> Some("ana@x.com"), password |-> Undefined]}

(* --------------------------- bcrypt (library) -------------------------- *)

\* cost factor passed to bcrypt.hash
BCRYPT_ROUNDS == 10

\* bcrypt keys its cipher with the first 72 bytes of the password only
BCRYPT_MAX_BYTES == 72

Salts == {"salt1"}

bcryptKey(password) ==
    IF Len(password) > BCRYPT_MAX_BYTES
    THEN SubSeq(password, 1, BCRYPT_MAX_BYTES)
    ELSE password

\* the digest embeds cost and salt; the one-way part is kept symbolic
bcryptDigest(password, salt, rounds) ==
    [rounds |-> rounds, salt |-> salt, key |-> bcryptKey(password)]

\* bcrypt.hash(password, rounds) with the random salt drawn by the library
bcryptHash(password, rounds, salt) == bcryptDigest(password, salt, rounds)

\* bcrypt.compare(password, digest): recompute with the embedded salt and cost
bcryptCompare(password, digest) ==
    bcryptDigest(password, digest.salt, digest.rounds) = digest

(* ----------------------------- environment ----------------------------- *)

JWT_SECRET == "jwt-secret"

\* values of process.env.JWT_EXPIRES_IN: not set, or a time span
EnvExpiresIn == {Undefined, Some("30m")}

\* the time span strings of the `ms` package, in seconds
Timespan(s) ==
    CASE s = "1h" -> 60 * 60
      [] s = "30m" -> 30 * 60


\* variant: the configured value is not read
ExpiresInIgnoresEnv(envValue) == "1h"

\* JWT_EXPIRES_IN of the service: process.env.JWT_EXPIRES_IN || "1h"
ExpiresInOrDefault(envValue) == IF FalsyStr(envValue) THEN "1h" ELSE envValue[1]

(* ------------------------- jsonwebtoken (library) ---------------------- *)

\* HMAC of the encoded header and payload under a key, kept symbolic
HmacSign(payload, secret) == [msg |-> payload, key |-> secret]

\* jwt.sign(payload, secret, {expiresIn}): adds iat and exp = iat + span
jwtSign(payload, secret, expiresIn, clock) ==
    LET claims == [sub |-> payload.sub, email |-> payload.email,
                   iat |-> clock, exp |-> clock + Timespan(expiresIn)]
    IN  [payload |-> claims, signature |-> HmacSign(claims, secret)]

\* the pieces an Authorization header is made of
Word(w) == [w |-> w]
Space == [sp |-> TRUE]
Jwt(t) == [jwt |-> t]
IsJwt(a) == DOMAIN a = {"jwt"}

\* variant: verification with ignoreExpiration
jwtVerifyIgnoreExpiration(token, secret, clock) ==
    IF ~(Len(token) = 1 /\ IsJwt(token[1]))
    THEN [ok |-> FALSE, error |-> "jwt malformed"]
    ELSE LET t == token[1].jwt IN
         IF t.signature # HmacSign(t.payload, secret)
         THEN [ok |-> FALSE, error |-> "invalid signature"]
         ELSE [ok |-> TRUE, payload |-> t.payload]

\* variant: a token is still taken at the instant of its exp
jwtVerifyInclusive(token, secret, clock) ==
    IF ~(Len(token) = 1 /\ IsJwt(token[1]))
    THEN [ok |-> FALSE, error |-> "jwt malformed"]
    ELSE LET t == token[1].jwt IN
         IF t.signature # HmacSign(t.payload, secret)
         THEN [ok |-> FALSE, error |-> "invalid signature"]
         ELSE IF clock > t.payload.exp
         THEN [ok |-> FALSE, error |-> "jwt expired"]
         ELSE [ok |-> TRUE, payload |-> t.payload]

\* variant: the token is decoded and its expiry looked at, its signature is not
jwtVerifyNoSignature(token, secret, clock) ==
    IF ~(Len(token) = 1 /\ IsJwt(token[1]))
    THEN [ok |-> FALSE, error |-> "jwt malformed"]
    ELSE LET t == token[1].jwt IN
         IF clock >= t.payload.exp
         THEN [ok |-> FALSE, error |-> "jwt expired"]
         ELSE [ok |-> TRUE, payload |-> t.payload]

\* jwt.verify(token, secret): the payload, or the error it throws.
\* The checks run in the library's order: shape, signature, expiry.
jwtVerify(token, secret, clock) ==
    IF ~(Len(token) = 1 /\ IsJwt(token[1]))
    THEN [ok |-> FALSE, error |-> "jwt malformed"]
    ELSE LET t == token[1].jwt IN
         IF t.signature # HmacSign(t.payload, secret)
         THEN [ok |-> FALSE, error |-> "invalid signature"]
         ELSE IF clock >= t.payload.exp
         THEN [ok |-> FALSE, error |-> "jwt expired"]
         ELSE [ok |-> TRUE, payload |-> t.payload]

(* ------------------------------- state --------------------------------- *)

VARIABLES
    env,             \* process.env.JWT_EXPIRES_IN
    JWT_EXPIRES_IN,  \* the service's module constant, set when it is loaded
    users,           \* rows of the table users
    nextId,          \* the sequence behind users.id
    categories,      \* rows of the table categories
    nextCategoryId,  \* the sequence behind categories.id
    now,             \* wall clock, in seconds
    ticks,           \* how often the clock was advanced
    pc,              \* where each request is
    req,             \* what each request carries: kind, body, header
    local,           \* the locals a request keeps across an await, and req.user
    resp,            \* the response sent for each request
    obs              \* what each request did: calls made, why it ended,
                     \* what the service returned to the controller

vars == <<env, JWT_EXPIRES_IN, users, nextId, categories, nextCategoryId,
          now, ticks, pc, req, local, resp, obs>>

Null == [null |-> TRUE]
NoResp == [status |-> 0]
NoReq == [kind |-> "none"]
NoLocal == [passwordHash |-> Undefined, user |-> Undefined, reqUser |-> Undefined]
NoObs == [find |-> 0, hash |-> 0, insert |-> 0, compare |-> 0, sign |-> 0,
          verify |-> 0, next |-> 0, sent |-> 0, why |-> "", at |-> 0,
          returned |-> Undefined]

\* an account registered before the process started: the table outlives it
SeedRow ==
    [id |-> 1, name |-> "Ana", email |-> "ana@x.com",
     password_hash |-> bcryptHash(PwSecret, BCRYPT_ROUNDS, "salt1"), created_at |-> 0]

Init ==
    /\ env \in EnvExpiresIn
    /\ JWT_EXPIRES_IN = ExpiresInOrDefault(env)
    /\ users = {SeedRow}
    /\ nextId = SeedRow.id + 1
    /\ categories = {}
    /\ nextCategoryId = 1
    /\ now = 0
    /\ ticks = 0
    /\ pc = [r \in Requests |-> "idle"]
    /\ req = [r \in Requests |-> NoReq]
    /\ local = [r \in Requests |-> NoLocal]
    /\ resp = [r \in Requests |-> NoResp]
    /\ obs = [r \in Requests |-> NoObs]

(* ----------------------------- repository ------------------------------ *)

\* mapRow: the columns of a row under the names the application uses
mapRow(row) ==
    [id |-> row.id, name |-> row.name, email |-> row.email,
     passwordHash |-> row.password_hash, createdAt |-> row.created_at]

\* SELECT ... FROM users WHERE email = $1
findByEmail(email) ==
    IF \E row \in users : row.email = email
    THEN mapRow(CHOOSE row \in users : row.email = email)
    ELSE Null

\* SELECT ... FROM users WHERE id = $1
findById(id) ==
    IF \E row \in users : row.id = id
    THEN mapRow(CHOOSE row \in users : row.id = id)
    ELSE Null

\* variant: the table has no uniqueness constraint on email
UniqueViolationNone(rows, email) == FALSE

\* the table's uniqueness constraint on email, as the store contract states it
UniqueViolation(rows, email) == \E row \in rows : row.email = email

\* the error the driver raises for a rejected INSERT: it carries no statusCode
DuplicateKeyError ==
    [statusCode |-> Undefined,
     message |-> "duplicate key value violates unique constraint"]

\* variant: the columns of the INSERT are bound in the wrong order
InsertedRowColumnsSwapped(name, email, passwordHash) ==
    [id |-> nextId, name |-> email, email |-> name,
     password_hash |-> passwordHash, created_at |-> now]

\* the row INSERT ... RETURNING yields: the store fills in id and created_at
InsertedRow(name, email, passwordHash) ==
    [id |-> nextId, name |-> name, email |-> email,
     password_hash |-> passwordHash, created_at |-> now]

(* -------------------------------- model -------------------------------- *)

\* new User(data): the constructor keeps every field it is given
User(data) ==
    [id |-> data.id, name |-> data.name, email |-> data.email,
     passwordHash |-> data.passwordHash, createdAt |-> data.createdAt]

(* ------------------------------ controller ----------------------------- *)

Json(status, body) == [status |-> status, body |-> body]

\* catch (error): error.statusCode || 500, and the error's message
ControllerCatch(error) ==
    Json(IF error.statusCode = Undefined THEN 500 ELSE error.statusCode[1],
         [message |-> error.message])

MissingData == Json(400, [message |-> "Faltan datos requeridos"])

HttpError(message, statusCode) == [statusCode |-> Some(statusCode), message |-> message]

\* res.status(..).json(..): the request ends; o is what the request observed
Finish(r, response, o) ==
    /\ resp' = [resp EXCEPT ![r] = response]
    /\ pc' = [pc EXCEPT ![r] = "done"]
    /\ obs' = [obs EXCEPT ![r] = [o EXCEPT !.sent = @ + 1]]

\* requests are numbered in the order in which they arrive
Arrives(r) == pc[r] = "idle" /\ \A q \in Requests : q < r => pc[q] # "idle"

(* ------------------------- POST /register ------------------------------ *)

\* variant: the error is thrown without its statusCode
EmailTakenErrorNoStatus ==
    [statusCode |-> Undefined, message |-> "El email ya esta registrado"]

EmailTakenError == HttpError("El email ya esta registrado", 409)

\* variant: the created account is sent as the service returned it
RegisterCreatedWholeUser(user) == Json(201, user)

\* the body of the 201 response
RegisterCreated(user) ==
    Json(201, [id |-> user.id, name |-> user.name, email |-> user.email,
               createdAt |-> user.createdAt])

\* controller.register up to the call of the service
RegisterStart(r, body) ==
    /\ Arrives(r)
    /\ req' = [req EXCEPT ![r] = [kind |-> "register", body |-> body]]
    /\ IF FalsyStr(body.name) \/ FalsyStr(body.email) \/ FalsyPw(body.password)
       THEN Finish(r, MissingData, [obs[r] EXCEPT !.why = "missing_data"])
       ELSE /\ pc' = [pc EXCEPT ![r] = "reg_find"]
            /\ UNCHANGED <<resp, obs>>
    /\ UNCHANGED <<categories, nextCategoryId, env, JWT_EXPIRES_IN, users, nextId, now, ticks, local>>

\* registerUser: the existence check, answered by the store
RegisterFind(r) ==
    /\ pc[r] = "reg_find"
    /\ LET existing == findByEmail(req[r].body.email[1])
           o == [obs[r] EXCEPT !.find = @ + 1]
       IN  IF existing # Null
           THEN Finish(r, ControllerCatch(EmailTakenError),
                       [o EXCEPT !.why = "email_taken"])
           ELSE /\ pc' = [pc EXCEPT ![r] = "reg_hash"]
                /\ obs' = [obs EXCEPT ![r] = o]
                /\ UNCHANGED resp
    /\ UNCHANGED <<categories, nextCategoryId, env, JWT_EXPIRES_IN, users, nextId, now, ticks, req, local>>

\* registerUser: bcrypt.hash(password, 10)
RegisterHash(r, salt) ==
    /\ pc[r] = "reg_hash"
    /\ local' = [local EXCEPT ![r].passwordHash =
                    Some(bcryptHash(req[r].body.password[1], BCRYPT_ROUNDS, salt))]
    /\ obs' = [obs EXCEPT ![r].hash = @ + 1]
    /\ pc' = [pc EXCEPT ![r] = "reg_insert"]
    /\ UNCHANGED <<categories, nextCategoryId, env, JWT_EXPIRES_IN, users, nextId, now, ticks, req, resp>>

\* registerUser: createUser runs the INSERT; the controller answers
RegisterInsert(r) ==
    /\ pc[r] = "reg_insert"
    /\ LET name == req[r].body.name[1]
           email == req[r].body.email[1]
           row == InsertedRow(name, email, local[r].passwordHash[1])
           o == [obs[r] EXCEPT !.insert = @ + 1]
       IN  IF UniqueViolation(users, email)
           THEN /\ Finish(r, ControllerCatch(DuplicateKeyError),
                          [o EXCEPT !.why = "duplicate_key"])
                /\ UNCHANGED <<users, nextId>>
           ELSE /\ users' = users \cup {row}
                /\ nextId' = nextId + 1
                /\ Finish(r, RegisterCreated(User(mapRow(row))),
                          [o EXCEPT !.why = "created",
                                    !.returned = Some(User(mapRow(row)))])
    /\ UNCHANGED <<categories, nextCategoryId, env, JWT_EXPIRES_IN, now, ticks, req, local>>

(* --------------------------- POST /login ------------------------------- *)

\* variant: an unknown email is reported as such
InvalidCredentialsNoUserSpecific == HttpError("Usuario no encontrado", 404)

InvalidCredentialsNoUser == HttpError("Credenciales invalidas", 401)

\* variant: a wrong password is answered 403
InvalidCredentialsForbidden == HttpError("Credenciales invalidas", 403)

InvalidCredentialsPassword == HttpError("Credenciales invalidas", 401)

\* variant: the result of bcrypt.compare is not looked at
PasswordMatchUnchecked(password, user) == TRUE

\* variant: the test of the result of bcrypt.compare is inverted
PasswordMatchInverted(password, user) == ~bcryptCompare(password, user.passwordHash)

\* loginUser: does the submitted password match the fetched account
PasswordMatch(password, user) == bcryptCompare(password, user.passwordHash)

\* variant: the token's email claim is filled from the wrong field
LoginTokenWrongField(user, expiresIn, clock) ==
    jwtSign([sub |-> user.id, email |-> user.name], JWT_SECRET, expiresIn, clock)

\* loginUser: the token signed for the fetched account
LoginToken(user, expiresIn, clock) ==
    jwtSign([sub |-> user.id, email |-> user.email], JWT_SECRET, expiresIn, clock)

\* the body of the 200 response
LoginOk(token, user) ==
    Json(200, [token |-> token,
               user |-> [id |-> user.id, name |-> user.name, email |-> user.email]])

\* controller.login up to the call of the service
LoginStart(r, body) ==
    /\ Arrives(r)
    /\ req' = [req EXCEPT ![r] = [kind |-> "login", body |-> body]]
    /\ IF FalsyStr(body.email) \/ FalsyPw(body.password)
       THEN Finish(r, MissingData, [obs[r] EXCEPT !.why = "missing_data"])
       ELSE /\ pc' = [pc EXCEPT ![r] = "login_find"]
            /\ UNCHANGED <<resp, obs>>
    /\ UNCHANGED <<categories, nextCategoryId, env, JWT_EXPIRES_IN, users, nextId, now, ticks, local>>

\* loginUser: the account is fetched by email
LoginFind(r) ==
    /\ pc[r] = "login_find"
    /\ LET user == findByEmail(req[r].body.email[1])
           o == [obs[r] EXCEPT !.find = @ + 1]
       IN  IF user = Null
           THEN /\ Finish(r, ControllerCatch(InvalidCredentialsNoUser),
                          [o EXCEPT !.why = "no_user"])
                /\ UNCHANGED local
           ELSE /\ local' = [local EXCEPT ![r].user = Some(user)]
                /\ pc' = [pc EXCEPT ![r] = "login_compare"]
                /\ obs' = [obs EXCEPT ![r] = o]
                /\ UNCHANGED resp
    /\ UNCHANGED <<categories, nextCategoryId, env, JWT_EXPIRES_IN, users, nextId, now, ticks, req>>

\* loginUser: bcrypt.compare, then jwt.sign; the controller answers
LoginCompare(r) ==
    /\ pc[r] = "login_compare"
    /\ LET user == local[r].user[1]
           o == [obs[r] EXCEPT !.compare = @ + 1]
       IN  IF ~PasswordMatch(req[r].body.password[1], user)
           THEN Finish(r, ControllerCatch(InvalidCredentialsPassword),
                       [o EXCEPT !.why = "bad_password"])
           ELSE Finish(r, LoginOk(LoginToken(user, JWT_EXPIRES_IN, now), User(user)),
                       [o EXCEPT !.sign = @ + 1, !.why = "logged_in", !.at = now,
                                 !.returned =
                                     Some([token |-> LoginToken(user, JWT_EXPIRES_IN, now),
                                           user |-> User(user)])])
    /\ UNCHANGED <<categories, nextCategoryId, env, JWT_EXPIRES_IN, users, nextId, now, ticks, req, local>>

(* ------------------------------ auth gate ------------------------------ *)

\* String.prototype.split(" "): the segments between the spaces
RECURSIVE SplitFrom(_, _)
SplitFrom(rest, segment) ==
    IF rest = <<>> THEN <<segment>>
    ELSE IF Head(rest) = Space
         THEN <<segment>> \o SplitFrom(Tail(rest), <<>>)
         ELSE SplitFrom(Tail(rest), Append(segment, Head(rest)))

Split(str) == SplitFrom(str, <<>>)

\* req.headers.authorization || ""
AuthHeader(header) == IF header = Undefined THEN <<>> ELSE header[1]

NotAuthorized == Json(401, [message |-> "No autorizado"])

\* variant: a rejected token is answered 403
InvalidTokenForbidden == Json(403, [message |-> "Token invalido"])

InvalidToken == Json(401, [message |-> "Token invalido"])

\* variant: a header with more than two segments is refused
HeaderRejectedExtraSegments(segments) ==
    \/ segments[1] # <<Word("Bearer")>>
    \/ Len(segments) # 2
    \/ segments[2] = <<>>

\* variant: the scheme is compared without regard to case
HeaderRejectedAnyCase(segments) ==
    \/ segments[1] \notin {<<Word("Bearer")>>, <<Word("bearer")>>, <<Word("BEARER")>>}
    \/ Len(segments) < 2
    \/ segments[2] = <<>>

\* scheme !== "Bearer" || !token, on the first two segments of the header
HeaderRejected(segments) ==
    \/ segments[1] # <<Word("Bearer")>>
    \/ Len(segments) < 2
    \/ segments[2] = <<>>

\* payload.sub, payload.email: reading a property an object may lack
Prop(object, field) ==
    IF field \in DOMAIN object THEN Some(object[field]) ELSE Undefined

\* variant: the 401 of a rejected token carries the library's error message
GateLeaksReason(header, clock) ==
    LET segments == Split(AuthHeader(header)) IN
    IF HeaderRejected(segments)
    THEN [pass |-> FALSE, verify |-> 0, response |-> NotAuthorized, reason |-> "header"]
    ELSE LET result == jwtVerify(segments[2], JWT_SECRET, clock) IN
         IF result.ok
         THEN [pass |-> TRUE, verify |-> 1,
               user |-> [id |-> Prop(result.payload, "sub"),
                         email |-> Prop(result.payload, "email")]]
         ELSE [pass |-> FALSE, verify |-> 1,
               response |-> Json(401, [message |-> result.error]),
               reason |-> result.error]

\* variant: the catch block passes control on instead of answering
GateNextOnError(header, clock) ==
    LET segments == Split(AuthHeader(header)) IN
    IF HeaderRejected(segments)
    THEN [pass |-> FALSE, verify |-> 0, response |-> NotAuthorized, reason |-> "header"]
    ELSE LET result == jwtVerify(segments[2], JWT_SECRET, clock) IN
         IF result.ok
         THEN [pass |-> TRUE, verify |-> 1,
               user |-> [id |-> Prop(result.payload, "sub"),
                         email |-> Prop(result.payload, "email")]]
         ELSE [pass |-> TRUE, verify |-> 1,
               user |-> [id |-> Undefined, email |-> Undefined]]

\* variant: a token is accepted only while its account is in the table
GateChecksAccount(header, clock) ==
    LET segments == Split(AuthHeader(header)) IN
    IF HeaderRejected(segments)
    THEN [pass |-> FALSE, verify |-> 0, response |-> NotAuthorized, reason |-> "header"]
    ELSE LET result == jwtVerify(segments[2], JWT_SECRET, clock) IN
         IF result.ok
         THEN LET id == Prop(result.payload, "sub") IN
              IF id # Undefined /\ findById(id[1]) # Null
              THEN [pass |-> TRUE, verify |-> 1,
                    user |-> [id |-> id, email |-> Prop(result.payload, "email")]]
              ELSE [pass |-> FALSE, verify |-> 1, response |-> InvalidToken,
                    reason |-> "revoked"]
         ELSE [pass |-> FALSE, verify |-> 1, response |-> InvalidToken,
               reason |-> result.error]

\* authMiddleware: what it does with a header at a given time
Gate(header, clock) ==
    LET segments == Split(AuthHeader(header)) IN
    IF HeaderRejected(segments)
    THEN [pass |-> FALSE, verify |-> 0, response |-> NotAuthorized, reason |-> "header"]
    ELSE LET result == jwtVerify(segments[2], JWT_SECRET, clock) IN
         IF result.ok
         THEN [pass |-> TRUE, verify |-> 1,
               user |-> [id |-> Prop(result.payload, "sub"),
                         email |-> Prop(result.payload, "email")]]
         ELSE [pass |-> FALSE, verify |-> 1, response |-> InvalidToken,
               reason |-> result.error]

(* ------------------------------ GET /me -------------------------------- *)

\* variant: a missing account is reported like a rejected token
UserNotFoundAsUnauthorized == HttpError("Token invalido", 401)

UserNotFoundError == HttpError("Usuario no encontrado", 404)

\* getProfile: findById(userId); an undefined parameter is sent as NULL,
\* which no id equals
getProfileLookup(userId) ==
    IF userId = Undefined THEN Null ELSE findById(userId[1])

\* variant: the name of the profile is filled from the wrong field
ProfileOkWrongField(user) ==
    Json(200, [id |-> user.id, name |-> user.email, email |-> user.email,
               createdAt |-> user.createdAt])

\* the body of the 200 response
ProfileOk(user) ==
    Json(200, [id |-> user.id, name |-> user.name, email |-> user.email,
               createdAt |-> user.createdAt])

\* the tokens clients hold: those that login responses carried
KnownTokens ==
    {resp[q].body.token : q \in {q \in Requests : req[q].kind = "login" /\ resp[q].status = 200}}

\* a signature with one bit flipped: the HMAC of nothing
FlipBit(signature) == [msg |-> signature.msg, key |-> signature.key, flipped |-> TRUE]

\* what a client can make of a token it holds without knowing the secret
TamperedOf(t) ==
    {[payload |-> [t.payload EXCEPT !.email = "admin@x.com"], signature |-> t.signature],
     [payload |-> t.payload, signature |-> FlipBit(t.signature)]}

\* a token made up by a client that does not know the secret
ForgedToken ==
    LET claims == [sub |-> 1, email |-> "ana@x.com", iat |-> 0, exp |-> 24 * 60 * 60]
    IN  [payload |-> claims, signature |-> HmacSign(claims, "guessed-secret")]

\* a token signed with the secret by another issuer: its payload has no sub
NoSubToken ==
    LET claims == [email |-> "ana@x.com", iat |-> 0, exp |-> 24 * 60 * 60]
    IN  [payload |-> claims, signature |-> HmacSign(claims, JWT_SECRET)]

\* a token the service issued two hours before the clock's origin, for one hour
OldToken == jwtSign([sub |-> 1, email |-> "ana@x.com"], JWT_SECRET, "1h", 0 - 2 * 60 * 60)

\* Authorization headers sent to GET /me
MeHeaders ==
    {Undefined, Some(<<Word("Bearer")>>), Some(<<Word("Bearer"), Space, Word("garbage")>>),
     Some(<<Word("BEARER"), Space, Jwt(OldToken)>>)}
    \cup {Some(<<Word("Bearer"), Space, Jwt(t)>>) : t \in {ForgedToken, NoSubToken, OldToken}}
    \cup UNION {{Some(<<Word("Bearer"), Space, Jwt(t)>>),
                 Some(<<Word("bearer"), Space, Jwt(t)>>),
                 Some(<<Word("Bearer"), Space, Space, Jwt(t)>>),
                 Some(<<Word("Bearer"), Space, Jwt(t), Space, Word("x")>>)} : t \in KnownTokens}
    \cup UNION {{Some(<<Word("Bearer"), Space, Jwt(u)>>) : u \in TamperedOf(t)} : t \in KnownTokens}

\* variant: the gate looks the token's account up and rejects when it is gone
MeStartWithLookup(r, header) ==
    /\ Arrives(r)
    /\ req' = [req EXCEPT ![r] = [kind |-> "me", header |-> header]]
    /\ LET gate == Gate(header, now)
           o == [obs[r] EXCEPT !.verify = @ + gate.verify, !.at = now]
       IN  IF gate.pass
           THEN IF getProfileLookup(gate.user.id) = Null
                THEN /\ Finish(r, InvalidToken,
                               [o EXCEPT !.find = @ + 1, !.why = "revoked"])
                     /\ UNCHANGED local
                ELSE /\ local' = [local EXCEPT ![r].reqUser = Some(gate.user)]
                     /\ pc' = [pc EXCEPT ![r] = "me_find"]
                     /\ obs' = [obs EXCEPT ![r] =
                                   [o EXCEPT !.find = @ + 1, !.next = @ + 1]]
                     /\ UNCHANGED resp
           ELSE /\ Finish(r, gate.response, [o EXCEPT !.why = gate.reason])
                /\ UNCHANGED local
    /\ UNCHANGED <<categories, nextCategoryId, env, JWT_EXPIRES_IN, users, nextId, now, ticks>>

\* variant: the gate answers 401 without returning, and passes control on
MeStartMissingReturn(r, header) ==
    /\ Arrives(r)
    /\ req' = [req EXCEPT ![r] = [kind |-> "me", header |-> header]]
    /\ LET gate == Gate(header, now)
           o == [obs[r] EXCEPT !.verify = @ + gate.verify, !.at = now, !.next = @ + 1]
       IN  IF gate.pass
           THEN /\ local' = [local EXCEPT ![r].reqUser = Some(gate.user)]
                /\ obs' = [obs EXCEPT ![r] = o]
                /\ UNCHANGED resp
           ELSE /\ local' = [local EXCEPT ![r].reqUser =
                                 Some([id |-> Undefined, email |-> Undefined])]
                /\ resp' = [resp EXCEPT ![r] = gate.response]
                /\ obs' = [obs EXCEPT ![r] = [o EXCEPT !.sent = @ + 1, !.why = gate.reason]]
    /\ pc' = [pc EXCEPT ![r] = "me_find"]
    /\ UNCHANGED <<categories, nextCategoryId, env, JWT_EXPIRES_IN, users, nextId, now, ticks>>

\* the route /me: authMiddleware, then controller.me up to the store query
MeStart(r, header) ==
    /\ Arrives(r)
    /\ req' = [req EXCEPT ![r] = [kind |-> "me", header |-> header]]
    /\ LET gate == Gate(header, now)
           o == [obs[r] EXCEPT !.verify = @ + gate.verify, !.at = now]
       IN  IF gate.pass
           THEN /\ local' = [local EXCEPT ![r].reqUser = Some(gate.user)]
                /\ pc' = [pc EXCEPT ![r] = "me_find"]
                /\ obs' = [obs EXCEPT ![r] = [o EXCEPT !.next = @ + 1]]
                /\ UNCHANGED resp
           ELSE /\ Finish(r, gate.response, [o EXCEPT !.why = gate.reason])
                /\ UNCHANGED local
    /\ UNCHANGED <<categories, nextCategoryId, env, JWT_EXPIRES_IN, users, nextId, now, ticks>>

\* getProfile: the account is fetched by id; the controller answers
MeFind(r) ==
    /\ pc[r] = "me_find"
    /\ LET user == getProfileLookup(local[r].reqUser[1].id)
           o == [obs[r] EXCEPT !.find = @ + 1]
       IN  IF user = Null
           THEN Finish(r, ControllerCatch(UserNotFoundError),
                       [o EXCEPT !.why = "not_found"])
           ELSE Finish(r, ProfileOk(User(user)),
                       [o EXCEPT !.why = "profile", !.returned = Some(User(user))])
    /\ UNCHANGED <<categories, nextCategoryId, env, JWT_EXPIRES_IN, users, nextId, now, ticks, req, local>>

(* -------------------------------- clock -------------------------------- *)

\* the instants the clock is looked at: just before, exactly at, and just
\* past the end of the life of a token signed at the clock's origin
TickSteps ==
    {Timespan(JWT_EXPIRES_IN) - 1, Timespan(JWT_EXPIRES_IN), Timespan(JWT_EXPIRES_IN) + 1}

\* the clock moves forward to the instant d
Tick(d) ==
    /\ ticks < MaxTicks
    /\ d > now
    /\ now' = d
    /\ ticks' = ticks + 1
    /\ UNCHANGED <<categories, nextCategoryId, env, JWT_EXPIRES_IN, users, nextId, pc, req, local, resp, obs>>

(* ----------------------------- specification --------------------------- *)

Next ==
    \/ \E r \in Requests : \E body \in RegisterBodies : RegisterStart(r, body)
    \/ \E r \in Requests : RegisterFind(r)
    \/ \E r \in Requests : \E salt \in Salts : RegisterHash(r, salt)
    \/ \E r \in Requests : RegisterInsert(r)
    \/ \E r \in Requests : \E body \in LoginBodies : LoginStart(r, body)
    \/ \E r \in Requests : LoginFind(r)
    \/ \E r \in Requests : LoginCompare(r)
    \/ \E r \in Requests : \E header \in MeHeaders : MeStart(r, header)
    \/ \E r \in Requests : MeFind(r)
    \/ \E d \in TickSteps : Tick(d)

Spec == Init /\ [][Next]_vars

\* what request r does when the call it awaits returns
Continue(r) ==
    \/ RegisterFind(r)
    \/ \E salt \in Salts : RegisterHash(r, salt)
    \/ RegisterInsert(r)
    \/ LoginFind(r)
    \/ LoginCompare(r)
    \/ MeFind(r)

\* the store, bcrypt and the event loop answer every call that is awaited
SpecFair == Spec /\ \A r \in Requests : WF_vars(Continue(r))

(* ------------------- the store changed from outside -------------------- *)

\* an account's row is removed from the table, not by this service
AccountRemoved(row) ==
    /\ ticks < MaxTicks
    /\ ticks' = ticks + 1
    /\ users' = users \ {row}
    /\ UNCHANGED <<categories, nextCategoryId, env, JWT_EXPIRES_IN, nextId, now, pc, req, local, resp, obs>>

NextWithRemoval ==
    \/ Next
    \/ \E row \in users : AccountRemoved(row)

SpecWithRemoval == Init /\ [][NextWithRemoval]_vars

(* ------------------------------ categories ----------------------------- *)

CategoryNames == {"Bebidas", "Snacks"}
CategoryDescriptions == {"d1", "d2"}
CategoryIds == 1..2

\* request bodies of POST /resgisterCategory
RegisterCategoryBodies == [name : CategoryNames, description : {"d1"}]

\* request bodies of PUT /updateCategory
UpdateCategoryBodies ==
    [id : CategoryIds, name : CategoryNames, description : CategoryDescriptions]

\* mapRow of the category repository
categoryMapRow(data) ==
    [id |-> data.id, name |-> data.name, description |-> data.description,
     createdAt |-> data.created_at]

\* SELECT ... FROM categories WHERE name = $1: the first row, or null
findCategoryByName(name) ==
    IF \E row \in categories : row.name = name
    THEN categoryMapRow(CHOOSE row \in categories : row.name = name)
    ELSE Null

\* SELECT ... FROM categories WHERE id = $1
findCategoryById(id) ==
    IF \E row \in categories : row.id = id
    THEN categoryMapRow(CHOOSE row \in categories : row.id = id)
    ELSE Null

\* the row INSERT INTO categories ... RETURNING yields
InsertedCategory(name, description) ==
    [id |-> nextCategoryId, name |-> name, description |-> description,
     created_at |-> now]

\* the table after UPDATE categories SET name, description WHERE id = $3
UpdatedCategories(id, name, description) ==
    {IF row.id = id
     THEN [row EXCEPT !.name = name, !.description = description]
     ELSE row : row \in categories}

\* new Category(data): id, name, description, and the time of construction
Category(data) ==
    [id |-> data.id, name |-> data.name, description |-> data.description,
     createdAt |-> now]

CategoryExistsError == HttpError("La categoría ya existe", 409)
CategoryNotFoundError == HttpError("La categoría no existe", 404)

\* mapRow(result.rows[0]) of an UPDATE that matched no row
NoRowError ==
    [statusCode |-> Undefined,
     message |-> "Cannot read properties of undefined (reading 'id')"]

\* catch (error) of the category controller
CategoryCatch(error) ==
    Json(IF error.statusCode = Undefined THEN 500 ELSE error.statusCode[1],
         [message |-> IF error.message = "" THEN "Error del servidor"
                      ELSE error.message])

\* controller.registerCategory up to the service's first query
RegisterCategoryStart(r, body) ==
    /\ Arrives(r)
    /\ req' = [req EXCEPT ![r] = [kind |-> "registerCategory", body |-> body]]
    /\ pc' = [pc EXCEPT ![r] = "cat_find_name"]
    /\ UNCHANGED <<categories, nextCategoryId, env, JWT_EXPIRES_IN, users, nextId,
                   now, ticks, local, resp, obs>>

\* registerCategory: the existence check, answered by the store
RegisterCategoryFind(r) ==
    /\ pc[r] = "cat_find_name"
    /\ LET existing == findCategoryByName(req[r].body.name)
           o == [obs[r] EXCEPT !.find = @ + 1]
       IN  IF existing # Null
           THEN Finish(r, CategoryCatch(CategoryExistsError),
                       [o EXCEPT !.why = "category_exists"])
           ELSE /\ pc' = [pc EXCEPT ![r] = "cat_insert"]
                /\ obs' = [obs EXCEPT ![r] = o]
                /\ UNCHANGED resp
    /\ UNCHANGED <<categories, nextCategoryId, env, JWT_EXPIRES_IN, users, nextId,
                   now, ticks, req, local>>

\* registerCategory: the INSERT; the controller answers 201
RegisterCategoryInsert(r) ==
    /\ pc[r] = "cat_insert"
    /\ LET row == InsertedCategory(req[r].body.name, req[r].body.description) IN
          /\ categories' = categories \cup {row}
          /\ nextCategoryId' = nextCategoryId + 1
          /\ Finish(r, Json(201, Category(categoryMapRow(row))),
                    [obs[r] EXCEPT !.insert = @ + 1, !.why = "category_created"])
    /\ UNCHANGED <<env, JWT_EXPIRES_IN, users, nextId, now, ticks, req, local>>

\* controller.updateCategory up to the service's first query
UpdateCategoryStart(r, body) ==
    /\ Arrives(r)
    /\ req' = [req EXCEPT ![r] = [kind |-> "updateCategory", body |-> body]]
    /\ pc' = [pc EXCEPT ![r] = "cat_find_id"]
    /\ UNCHANGED <<categories, nextCategoryId, env, JWT_EXPIRES_IN, users, nextId,
                   now, ticks, local, resp, obs>>

\* updateCategory: the category is fetched by id
UpdateCategoryFind(r) ==
    /\ pc[r] = "cat_find_id"
    /\ LET existing == findCategoryById(req[r].body.id)
           o == [obs[r] EXCEPT !.find = @ + 1]
       IN  IF existing = Null
           THEN Finish(r, CategoryCatch(CategoryNotFoundError),
                       [o EXCEPT !.why = "category_not_found"])
           ELSE /\ pc' = [pc EXCEPT ![r] = "cat_update"]
                /\ obs' = [obs EXCEPT ![r] = o]
                /\ UNCHANGED resp
    /\ UNCHANGED <<categories, nextCategoryId, env, JWT_EXPIRES_IN, users, nextId,
                   now, ticks, req, local>>

\* updateCategory: the UPDATE; the controller answers 200
UpdateCategoryWrite(r) ==
    /\ pc[r] = "cat_update"
    /\ LET body == req[r].body
           o == [obs[r] EXCEPT !.insert = @ + 1]
       IN  /\ categories' = UpdatedCategories(body.id, body.name, body.description)
           /\ IF findCategoryById(body.id) = Null
              THEN Finish(r, CategoryCatch(NoRowError), [o EXCEPT !.why = "no_row"])
              ELSE Finish(r, Json(200, Category([findCategoryById(body.id) EXCEPT
                                                   !.name = body.name,
                                                   !.description = body.description])),
                          [o EXCEPT !.why = "category_updated"])
    /\ UNCHANGED <<nextCategoryId, env, JWT_EXPIRES_IN, users, nextId, now, ticks,
                   req, local>>

NextCategories ==
    \/ \E r \in Requests : \E body \in RegisterCategoryBodies : RegisterCategoryStart(r, body)
    \/ \E r \in Requests : RegisterCategoryFind(r)
    \/ \E r \in Requests : RegisterCategoryInsert(r)
    \/ \E r \in Requests : \E body \in UpdateCategoryBodies : UpdateCategoryStart(r, body)
    \/ \E r \in Requests : UpdateCategoryFind(r)
    \/ \E r \in Requests : UpdateCategoryWrite(r)

SpecCategories == Init /\ [][NextCategories]_vars

(* =============================== claims ================================ *)

IsRegister(r) == req[r].kind = "register"
IsLogin(r) == req[r].kind = "login"
IsMe(r) == req[r].kind = "me"
Done(r) == pc[r] = "done"
Moves(r) == pc'[r] # pc[r]
HasToken(r) == Done(r) /\ "token" \in DOMAIN resp[r].body
BearerOf(t) == Some(<<Word("Bearer"), Space, Jwt(t)>>)
AllPasswords == {PwEmpty, PwSecret, PwLong72, PwLong73}

\* r answered 201 to a registration of email with password
Registered(r, email, password) ==
    /\ IsRegister(r) /\ Done(r) /\ resp[r].status = 201
    /\ req[r].body.email = Some(email)
    /\ req[r].body.password = Some(password)

(* C1: when two registrations of the same email both pass the existence     *)
(* check before either inserts, exactly one is answered 201 and the other   *)
(* is answered 409 (EmailTaken), not any other error.                       *)
C1_RaceLoserGetsEmailTaken ==
    \A r1, r2 \in Requests :
        ( /\ r1 # r2
          /\ IsRegister(r1) /\ IsRegister(r2)
          /\ Done(r1) /\ Done(r2)
          /\ req[r1].body.email = req[r2].body.email
          /\ obs[r1].insert = 1 /\ obs[r2].insert = 1 )
        => {resp[r1].status, resp[r2].status} = {201, 409}

(* C2: the store holds at most one account per email in every reachable     *)
(* state, and an account keeps the id it was given.                         *)
EmailsUnique == \A u, v \in users : u.email = v.email => u = v
IdsKept == \A u \in users : \E v \in users' : v.email = u.email /\ v.id = u.id
C2_OneAccountPerEmailIdKept == []EmailsUnique /\ [][IdsKept]_vars

C2_Witness ==
    \E r \in Requests :
        /\ IsRegister(r) /\ obs[r].why = "duplicate_key"
        /\ Cardinality(users) = 2

(* C3: a registration whose email is in the store when the existence check  *)
(* runs is answered 409 "El email ya esta registrado"; it calls neither the *)
(* hash nor the insert, and the store is left as it was.                    *)
C3_EmailTakenStopsRegister ==
    [][\A r \in Requests :
          ( /\ pc[r] = "reg_find" /\ Moves(r)
            /\ \E row \in users : Some(row.email) = req[r].body.email )
          => /\ pc'[r] = "done"
             /\ resp'[r] = Json(409, [message |-> "El email ya esta registrado"])
             /\ obs'[r].hash = 0 /\ obs'[r].insert = 0 /\ obs'[r].sent = 1
             /\ users' = users /\ nextId' = nextId]_vars

C3_Witness ==
    \E r \in Requests :
        /\ IsRegister(r) /\ Done(r) /\ obs[r].why = "email_taken"
        /\ resp[r].status = 409

(* C4: a login that fails because no account has the email and a login that *)
(* fails because the password does not match get the same status 401 and    *)
(* the same body.                                                           *)
C4_LoginFailuresIdentical ==
    \A r1, r2 \in Requests :
        ( /\ IsLogin(r1) /\ Done(r1) /\ obs[r1].why = "no_user"
          /\ IsLogin(r2) /\ Done(r2) /\ obs[r2].why = "bad_password" )
        => resp[r1] = resp[r2] /\ resp[r1].status = 401

C4_Witness ==
    \E r1, r2 \in Requests :
        /\ IsLogin(r1) /\ Done(r1) /\ obs[r1].why = "no_user"
        /\ IsLogin(r2) /\ Done(r2) /\ obs[r2].why = "bad_password"

(* C5: a login signs and returns a token only when the store holds an       *)
(* account with the given email whose stored hash the given password        *)
(* verifies against.                                                        *)
C5_TokenOnlyForVerifiedAccount ==
    \A r \in Requests :
        (IsLogin(r) /\ (obs[r].sign > 0 \/ HasToken(r)))
        => \E row \in users :
              /\ Some(row.email) = req[r].body.email
              /\ bcryptCompare(req[r].body.password[1], row.password_hash)

C5_Witness == \E r \in Requests : IsLogin(r) /\ HasToken(r) /\ obs[r].sign = 1

(* C6: verify(p, hash(p)) is true for every password p, so once a           *)
(* registration of (email, p) was answered 201, a login with (email, p)     *)
(* that reads the store finds the account and ends with 200 and a token,    *)
(* whatever else runs in between.                                           *)
C6_LoginAfterRegisterSucceeds ==
    [][/\ \A p \in AllPasswords, salt \in Salts :
             bcryptCompare(p, bcryptHash(p, BCRYPT_ROUNDS, salt))
       /\ \A r \in Requests :
             ( /\ IsLogin(r) /\ Moves(r)
               /\ \E q \in Requests :
                     Registered(q, req[r].body.email[1], req[r].body.password[1]) )
             => /\ pc[r] = "login_find" => pc'[r] = "login_compare"
                /\ pc[r] = "login_compare" =>
                      /\ resp'[r].status = 200
                      /\ resp'[r].body.token.payload.email = req[r].body.email[1]]_vars

C6_Witness ==
    \E q, r \in Requests :
        /\ IsLogin(r) /\ HasToken(r) /\ resp[r].status = 200
        /\ Registered(q, req[r].body.email[1], req[r].body.password[1])

(* C7: verify(p1, hash(p2)) is false for all p1 # p2: a login with the      *)
(* email of an account registered with p2 and a different password p1 is    *)
(* answered 401 and gets no token.                                          *)
C7_DifferentPasswordRejected ==
    \A q, r \in Requests :
        ( /\ IsLogin(r) /\ Done(r)
          /\ IsRegister(q) /\ Done(q) /\ resp[q].status = 201
          /\ req[q].body.email = req[r].body.email
          /\ req[q].body.password # req[r].body.password )
        => resp[r].status = 401 /\ ~HasToken(r)

(* C8: a token issued by a login and presented at once as "Bearer <token>"  *)
(* passes the gate, and the context attached to the request carries the id  *)
(* and the email of the account that logged in.                             *)
C8_IssuedTokenAcceptedAtOnce ==
    \A q, r \in Requests :
        ( /\ IsLogin(q) /\ HasToken(q)
          /\ IsMe(r) /\ req[r].header = BearerOf(resp[q].body.token)
          /\ obs[r].at = obs[q].at )
        => /\ obs[r].next = 1
           /\ resp[r].status # 401
           /\ \E row \in users :
                 /\ Some(row.email) = req[q].body.email
                 /\ local[r].reqUser = Some([id |-> Some(row.id), email |-> Some(row.email)])

C8_Witness ==
    \E q, r \in Requests :
        /\ IsLogin(q) /\ HasToken(q)
        /\ IsMe(r) /\ req[r].header = BearerOf(resp[q].body.token)
        /\ obs[r].at = obs[q].at
        /\ local[r].reqUser # Undefined

(* C9: every token a login issues carries the account's id as subject, the  *)
(* account's email, the time of issue, and an expiry that is the time of    *)
(* issue plus the configured JWT_EXPIRES_IN, one hour when none is set.     *)
C9_TokenClaims ==
    \A q \in Requests :
        (IsLogin(q) /\ HasToken(q))
        => LET claims == resp[q].body.token.payload IN
           /\ \E row \in users :
                 /\ Some(row.email) = req[q].body.email
                 /\ claims.sub = row.id
                 /\ claims.email = row.email
           /\ claims.iat = obs[q].at
           /\ env = Undefined => claims.exp = claims.iat + 3600
           /\ env = Some("30m") => claims.exp = claims.iat + 1800

C9_Witness ==
    \E q \in Requests :
        /\ IsLogin(q) /\ HasToken(q) /\ env = Some("30m")
        /\ resp[q].body.token.payload.iat > 0

(* C10: a correctly signed token presented after its life has ended         *)
(* (now > expiresAt) is answered 401 and the profile handler is not run.    *)
C10_ExpiredTokenRejected ==
    \A q, r \in Requests :
        ( /\ IsLogin(q) /\ HasToken(q)
          /\ IsMe(r) /\ req[r].header = BearerOf(resp[q].body.token)
          /\ resp[q].body.token.signature
                = HmacSign(resp[q].body.token.payload, JWT_SECRET)
          /\ obs[r].at > resp[q].body.token.payload.exp )
        => /\ Done(r) /\ resp[r].status = 401
           /\ obs[r].next = 0 /\ obs[r].find = 0
           /\ local[r].reqUser = Undefined

C10_Witness ==
    \E q, r \in Requests :
        /\ IsLogin(q) /\ HasToken(q)
        /\ IsMe(r) /\ req[r].header = BearerOf(resp[q].body.token)
        /\ obs[r].at > resp[q].body.token.payload.exp
        /\ resp[r].status = 401

(* ------------------------- the gate, C11 .. C18 ------------------------- *)

\* q is a login that was answered with a token; TokenOf(q) is that token
Issued(q) == IsLogin(q) /\ HasToken(q)
TokenOf(q) == resp[q].body.token
ValidlySigned(t) == t.signature = HmacSign(t.payload, JWT_SECRET)

\* r is a request to /me that carries exactly "Bearer <t>"
Presents(r, t) == IsMe(r) /\ req[r].header = BearerOf(t)

\* the header, read as text, has no scheme "Bearer" followed by one space
\* and a non-empty value
NoBearerValue(header) ==
    \/ header = Undefined
    \/ LET a == header[1] IN
          \/ Len(a) < 3
          \/ a[1] # Word("Bearer")
          \/ a[2] # Space
          \/ a[3] = Space

\* the header carries a token that is well formed, signed with the server's
\* secret and not yet expired at the instant clock
CarriesValidToken(header, clock) ==
    /\ ~NoBearerValue(header)
    /\ LET a == header[1] IN
          /\ IsJwt(a[3])
          /\ Len(a) > 3 => a[4] = Space
          /\ ValidlySigned(a[3].jwt)
          /\ clock < a[3].jwt.payload.exp

Rejected401(r) ==
    /\ Done(r) /\ resp[r].status = 401
    /\ obs[r].sent = 1 /\ obs[r].next = 0 /\ obs[r].find = 0
    /\ local[r].reqUser = Undefined

C12_TamperedTokenRejected ==
    \A q, r \in Requests :
        (Issued(q) /\ \E u \in TamperedOf(TokenOf(q)) : Presents(r, u))
        => Rejected401(r) /\ obs[r].verify = 1

C12_Witness ==
    \E q, r \in Requests :
        /\ Issued(q)
        /\ obs[r].at < TokenOf(q).payload.exp
        /\ Presents(r, [payload |-> [TokenOf(q).payload EXCEPT !.email = "admin@x.com"],
                        signature |-> TokenOf(q).signature])
        /\ resp[r].status = 401

\* C13: a correctly signed, unexpired token whose payload lacks the account
\* id or the email is rejected, and the gate never attaches a context whose
\* account id or email is absent.
C13_TokenWithoutSubRejected ==
    \A r \in Requests :
        /\ ( /\ IsMe(r)
             /\ CarriesValidToken(req[r].header, obs[r].at)
             /\ \/ "sub" \notin DOMAIN req[r].header[1][3].jwt.payload
                \/ "email" \notin DOMAIN req[r].header[1][3].jwt.payload )
           => Rejected401(r)
        /\ local[r].reqUser # Undefined
           => /\ local[r].reqUser[1].id # Undefined
              /\ local[r].reqUser[1].email # Undefined

\* r was rejected by the verification of its token (not by the header check)
TokenRejected(r) == IsMe(r) /\ Done(r) /\ obs[r].verify = 1 /\ obs[r].next = 0
\* r was rejected by the header check, before any verification
HeaderOnlyRejected(r) == IsMe(r) /\ Done(r) /\ obs[r].verify = 0

\* C14: token rejections of different kinds (bad signature, expired,
\* malformed) are answered with the same status and the same body.
C14_TokenRejectionsIdentical ==
    \A r1, r2 \in Requests :
        (TokenRejected(r1) /\ TokenRejected(r2) /\ obs[r1].why # obs[r2].why)
        => resp[r1] = resp[r2] /\ resp[r1].status = 401

C14_Witness ==
    \E r1, r2 \in Requests :
        /\ TokenRejected(r1) /\ obs[r1].why = "jwt expired"
        /\ TokenRejected(r2) /\ obs[r2].why \in {"invalid signature", "jwt malformed"}
        /\ resp[r1] = resp[r2]

C16_HeaderCheckedBeforeVerify ==
    \A r \in Requests :
        (IsMe(r) /\ NoBearerValue(req[r].header))
        => Rejected401(r) /\ obs[r].verify = 0

C16_Witness ==
    \E r \in Requests :
        /\ IsMe(r) /\ req[r].header # Undefined
        /\ Len(req[r].header[1]) = 3
        /\ req[r].header[1][1] = Word("bearer")
        /\ ValidlySigned(req[r].header[1][3].jwt)
        /\ obs[r].at < req[r].header[1][3].jwt.payload.exp
        /\ resp[r].status = 401 /\ obs[r].verify = 0

\* C17: the handler runs exactly when the verification succeeded; then the
\* context is {id: subject, email: email of the token} and control was
\* passed on once with no response from the gate.  Otherwise the gate
\* answered 401, attached nothing and did not pass control on.
C17_HandlerRunsIffVerified ==
    \A r \in Requests :
        IsMe(r) =>
            IF CarriesValidToken(req[r].header, obs[r].at)
            THEN LET payload == req[r].header[1][3].jwt.payload IN
                 /\ obs[r].verify = 1 /\ obs[r].next = 1
                 /\ local[r].reqUser = Some([id |-> Prop(payload, "sub"),
                                             email |-> Prop(payload, "email")])
                 /\ pc[r] = "me_find"
                    => obs[r].sent = 0 /\ resp[r] = NoResp /\ obs[r].find = 0
                 /\ Done(r)
                    => obs[r].sent = 1 /\ obs[r].find = 1
            ELSE Rejected401(r)

C17_Witness ==
    \E r \in Requests :
        /\ IsMe(r) /\ pc[r] = "me_find"
        /\ obs[r].next = 1 /\ obs[r].sent = 0
        /\ local[r].reqUser = Some([id |-> Some(1), email |-> Some("ana@x.com")])

\* C18: the gate reads and writes nothing in the store; besides answering
\* or attaching the context to its own request it changes nothing.
C18_GateTouchesNoStore ==
    [][\A r \in Requests :
          (pc[r] = "idle" /\ pc'[r] # "idle" /\ req'[r].kind = "me")
          => /\ users' = users /\ nextId' = nextId
             /\ env' = env /\ JWT_EXPIRES_IN' = JWT_EXPIRES_IN
             /\ obs'[r].find = 0 /\ obs'[r].insert = 0
             /\ \A q \in Requests \ {r} :
                   /\ local'[q] = local[q] /\ resp'[q] = resp[q]
                   /\ pc'[q] = pc[q] /\ req'[q] = req[q]]_vars

C18_Witness ==
    \E r \in Requests :
        /\ IsMe(r) /\ obs[r].verify = 1 /\ obs[r].next = 1
        /\ obs[r].find = 0 /\ pc[r] = "me_find"
        /\ users = {SeedRow} /\ nextId = 2

(* ------------------- removed accounts, C19 and C20 --------------------- *)

AccountExists(id) == \E row \in users : row.id = id

\* C19: an issued token is accepted by the gate at every instant before its
\* expiry, whatever logins, registrations or removals of accounts (its own
\* account included) happened since it was issued.
C19_NoRevocation ==
    \A q, r \in Requests :
        ( /\ Issued(q) /\ Presents(r, TokenOf(q))
          /\ obs[r].at < TokenOf(q).payload.exp )
        => /\ obs[r].next = 1
           /\ local[r].reqUser = Some([id |-> Some(TokenOf(q).payload.sub),
                                       email |-> Some(TokenOf(q).payload.email)])
           /\ Done(r) => resp[r].status # 401

C19_Witness ==
    \E q, r \in Requests :
        /\ Issued(q) /\ Presents(r, TokenOf(q))
        /\ pc[r] = "me_find"
        /\ ~AccountExists(TokenOf(q).payload.sub)

\* C20: the profile handler answers 200 with the account view (id, name,
\* email, createdAt) of the account the context names, or 404 "Usuario no
\* encontrado" when there is no such account: a valid token of a removed
\* account passes the gate and gets 404, not 401.
C20_ProfileOrNotFound ==
    [][\A r \in Requests :
          (pc[r] = "me_find" /\ Moves(r))
          => LET id == local[r].reqUser[1].id IN
             IF id # Undefined /\ AccountExists(id[1])
             THEN LET row == CHOOSE row \in users : row.id = id[1] IN
                  resp'[r] = Json(200, [id |-> row.id, name |-> row.name,
                                        email |-> row.email,
                                        createdAt |-> row.created_at])
             ELSE resp'[r] = Json(404, [message |-> "Usuario no encontrado"])]_vars

C20_Witness ==
    \E q, r \in Requests :
        /\ Issued(q) /\ Presents(r, TokenOf(q))
        /\ obs[r].at < TokenOf(q).payload.exp
        /\ obs[r].next = 1 /\ Done(r)
        /\ resp[r] = Json(404, [message |-> "Usuario no encontrado"])

(* ----------------------- what leaves the service ------------------------ *)

\* the messages the endpoints answer with
Messages ==
    {"Faltan datos requeridos", "El email ya esta registrado",
     "Credenciales invalidas", "No autorizado", "Token invalido",
     "Usuario no encontrado", "duplicate key value violates unique constraint"}

\* the claims of a token name the account and the token's lifetime only
TokenClaimsOnly(token) ==
    /\ DOMAIN token.payload \subseteq {"sub", "email", "iat", "exp"}
    /\ token.signature = HmacSign(token.payload, JWT_SECRET)

\* a response body made of a message, of fields of the account view and of
\* a token: nothing in it is a password or a stored hash
SecretFree(body) ==
    /\ DOMAIN body \subseteq {"message", "id", "name", "email", "createdAt", "token", "user"}
    /\ "message" \in DOMAIN body => body.message \in Messages
    /\ "id" \in DOMAIN body => body.id \in 1..(nextId - 1)
    /\ "name" \in DOMAIN body => body.name \in Names
    /\ "email" \in DOMAIN body => body.email \in Emails
    /\ "createdAt" \in DOMAIN body => body.createdAt \in {row.created_at : row \in users}
    /\ "token" \in DOMAIN body => TokenClaimsOnly(body.token)
    /\ "user" \in DOMAIN body
       => /\ DOMAIN body.user = {"id", "name", "email"}
          /\ body.user.id \in 1..(nextId - 1)
          /\ body.user.name \in Names
          /\ body.user.email \in Emails

\* C21: no response body of register, login or profile, on success or on
\* failure, contains the stored credential hash or the plaintext password
\* of any account.
C21_NoSecretInResponses ==
    \A r \in Requests : Done(r) => SecretFree(resp[r].body)

C21_Witness ==
    \E q, r \in Requests :
        /\ IsRegister(r) /\ Done(r) /\ resp[r].status = 201
        /\ IsLogin(q) /\ Done(q) /\ resp[q].status = 200
        /\ \E row \in users : row.id = resp[r].body.id /\ row.password_hash # Undefined

\* the account view: id, name, email and createdAt, nothing else
ViewFields == {"id", "name", "email", "createdAt"}

\* the account part of what the service returned to the controller
ReturnedAccount(r) ==
    IF "user" \in DOMAIN obs[r].returned[1]
    THEN obs[r].returned[1].user
    ELSE obs[r].returned[1]

\* C22: what the service returns from Register, and the user part of what
\* it returns from Login and GetProfile, is made of id, name, email and
\* createdAt only: the credential hash is not in it.
C22_ServiceReturnsViewOnly ==
    \A r \in Requests :
        obs[r].returned # Undefined => DOMAIN ReturnedAccount(r) = ViewFields

\* q logged in and r then asked for the profile with q's token, in time
ProfileAfterLogin(q, r) ==
    /\ Issued(q) /\ Presents(r, TokenOf(q))
    /\ obs[r].at < TokenOf(q).payload.exp
    /\ Done(r)

\* C23 (as the specification states it): the profile obtained with the
\* token of a login is the same account view, field for field, as the one
\* that login answered.
C23_ProfileEqualsLoginView ==
    \A q, r \in Requests :
        ProfileAfterLogin(q, r) => resp[r].body = resp[q].body.user

\* C23 (amended): GetProfile returns to its caller the same account as
\* Login did, and the profile answer carries the same id, name and email
\* as the login answer's user part; it carries createdAt in addition.
C23_ProfileAgreesWithLoginView ==
    \A q, r \in Requests :
        ProfileAfterLogin(q, r)
        => /\ resp[r].status = 200
           /\ obs[r].returned[1] = obs[q].returned[1].user
           /\ \A f \in {"id", "name", "email"} : resp[r].body[f] = resp[q].body.user[f]
           /\ DOMAIN resp[r].body = DOMAIN resp[q].body.user \cup {"createdAt"}

C23_Witness ==
    \E q, r \in Requests :
        /\ ProfileAfterLogin(q, r)
        /\ resp[r].body.email = resp[q].body.user.email
        /\ "createdAt" \in DOMAIN resp[r].body

\* the header's scheme is a word other than "Bearer", followed by a value
OtherScheme(header) ==
    /\ header # Undefined
    /\ Len(header[1]) >= 3
    /\ header[1][1] \in {Word("bearer"), Word("BEARER")}
    /\ header[1][2] = Space

\* C24: a scheme other than "Bearer" is answered 401 "Token invalido", and
\* a request without Authorization header 401 "No autorizado".
C24_WrongSchemeAnsweredTokenInvalido ==
    \A r \in Requests :
        (IsMe(r) /\ Done(r))
        => /\ req[r].header = Undefined
              => resp[r] = Json(401, [message |-> "No autorizado"])
           /\ OtherScheme(req[r].header)
              => resp[r] = Json(401, [message |-> "Token invalido"])

(* ------------------------- outcomes, C25 .. C28 ------------------------- *)

\* v, an optional string, is absent or empty
AbsentOrEmpty(v) == v \in {Undefined, Some("")}
AbsentOrEmptyPw(v) == v \in {Undefined, Some(PwEmpty)}

\* the request lacks a field its endpoint requires
InvalidInput(request) ==
    \/ /\ request.kind = "register"
       /\ \/ AbsentOrEmpty(request.body.name)
          \/ AbsentOrEmpty(request.body.email)
          \/ AbsentOrEmptyPw(request.body.password)
    \/ /\ request.kind = "login"
       /\ \/ AbsentOrEmpty(request.body.email)
          \/ AbsentOrEmptyPw(request.body.password)

\* C25: a Register without name, email or password and a Login without
\* email or password are answered 400 "Faltan datos requeridos" before any
\* store lookup, hashing, insert or signing; the store is unchanged.
C25_InvalidInputRejectedFirst ==
    [][\A r \in Requests :
          (pc[r] = "idle" /\ pc'[r] # "idle" /\ InvalidInput(req'[r]))
          => /\ resp'[r] = Json(400, [message |-> "Faltan datos requeridos"])
             /\ pc'[r] = "done"
             /\ obs'[r].find = 0 /\ obs'[r].hash = 0 /\ obs'[r].insert = 0
             /\ obs'[r].compare = 0 /\ obs'[r].sign = 0
             /\ users' = users /\ nextId' = nextId]_vars

C25_Witness ==
    \E q, r \in Requests :
        /\ IsRegister(r) /\ req[r].body.password = Some(PwEmpty)
        /\ resp[r].status = 400
        /\ IsLogin(q) /\ req[q].body.password = Undefined
        /\ resp[q].status = 400

\* C26: Register ends with 201, 400, 409 or 500, Login with 200, 400, 401
\* or 500, the profile route with 200, 401, 404 or 500; 500 is sent only
\* when a collaborator raised a failure without status code.
C26_OutcomesClosed ==
    \A r \in Requests :
        Done(r)
        => /\ IsRegister(r) => resp[r].status \in {201, 400, 409, 500}
           /\ IsLogin(r) => resp[r].status \in {200, 400, 401, 500}
           /\ IsMe(r) => resp[r].status \in {200, 401, 404, 500}
           /\ resp[r].status = 500
              => obs[r].why = "duplicate_key" /\ obs[r].insert = 1

C26_Witness ==
    \E q, r \in Requests :
        /\ IsRegister(r) /\ Done(r) /\ resp[r].status = 500
        /\ IsRegister(q) /\ Done(q) /\ resp[q].status = 201

\* a request answered once, and only when it ended
OneResponse(r) ==
    /\ obs[r].sent = IF Done(r) THEN 1 ELSE 0
    /\ Done(r) <=> resp[r] # NoResp
    /\ obs[r].next <= 1
    /\ (IsMe(r) /\ ~Done(r)) => obs[r].next = 1
    /\ (IsMe(r) /\ Done(r)) => (obs[r].next = 1 <=> obs[r].find = 1)

\* C27: a request is answered exactly once, when it ends, and the gate
\* never both answers and passes control on; from some point on every
\* request that arrived has ended.
C27_ExactlyOneResponse ==
    /\ [](\A r \in Requests : OneResponse(r))
    /\ <>[](\A r \in Requests : pc[r] \in {"idle", "done"})

C27_Witness ==
    \E q, r \in Requests :
        /\ IsMe(r) /\ Done(r) /\ obs[r].next = 1 /\ obs[r].sent = 1
        /\ IsMe(q) /\ Done(q) /\ obs[q].next = 0 /\ obs[q].sent = 1

\* C28: Login, GetProfile, the gate and a failed Register leave the table
\* as it is; the table changes only when a Register reaches the insert,
\* which adds one account with the submitted name and email and with the
\* hash of the submitted password, not the password.
C28_OnlyRegisterInsertWrites ==
    [][/\ \A r \in Requests :
             (Moves(r) /\ ~(pc[r] = "reg_insert" /\ resp'[r].status = 201))
             => users' = users /\ nextId' = nextId
       /\ users' # users
          => \E r \in Requests :
                /\ pc[r] = "reg_insert" /\ pc'[r] = "done" /\ resp'[r].status = 201
                /\ \E row \in users' \ users :
                      /\ users' = users \cup {row}
                      /\ Some(row.name) = req[r].body.name
                      /\ Some(row.email) = req[r].body.email
                      /\ row.password_hash \in
                            {bcryptHash(req[r].body.password[1], BCRYPT_ROUNDS, salt) :
                                salt \in Salts}
                      /\ row.id = resp'[r].body.id]_vars

C28_Witness ==
    \E r \in Requests :
        /\ IsRegister(r) /\ Done(r) /\ resp[r].status = 201
        /\ \E row \in users :
              /\ row.id = resp[r].body.id
              /\ Some(row.email) = req[r].body.email
              /\ row.password_hash \in
                    {bcryptHash(req[r].body.password[1], BCRYPT_ROUNDS, salt) :
                        salt \in Salts}
        /\ Cardinality(users) = 2

\* the header reads "Bearer <token> <extra>"
ExtraSegment(header) ==
    /\ header # Undefined
    /\ Len(header[1]) = 5
    /\ header[1][1] = Word("Bearer") /\ header[1][2] = Space
    /\ IsJwt(header[1][3])
    /\ header[1][4] = Space /\ header[1][5] # Space

\* the header reads "Bearer  <token>", with two spaces
TwoSpaces(header) ==
    /\ header # Undefined
    /\ Len(header[1]) >= 3
    /\ header[1][1] = Word("Bearer") /\ header[1][2] = Space
    /\ header[1][3] = Space

\* C29: of "Bearer <token> <extra>" the gate verifies <token> alone and
\* ignores the rest; "Bearer  <token>" has an empty value segment and is
\* answered 401 "No autorizado" without verification.
C29_FirstTwoSegmentsOnly ==
    \A r \in Requests :
        IsMe(r)
        => /\ ExtraSegment(req[r].header)
              => LET t == req[r].header[1][3].jwt IN
                 /\ obs[r].verify = 1
                 /\ obs[r].next = 1 <=> (ValidlySigned(t) /\ obs[r].at < t.payload.exp)
                 /\ obs[r].next = 1
                    => local[r].reqUser = Some([id |-> Prop(t.payload, "sub"),
                                                email |-> Prop(t.payload, "email")])
                 /\ obs[r].next = 0 => resp[r] = Json(401, [message |-> "Token invalido"])
           /\ TwoSpaces(req[r].header)
              => /\ resp[r] = Json(401, [message |-> "No autorizado"])
                 /\ obs[r].verify = 0 /\ obs[r].next = 0

C29_Witness ==
    \E r \in Requests :
        /\ IsMe(r) /\ ExtraSegment(req[r].header)
        /\ obs[r].next = 1 /\ Done(r) /\ resp[r].status = 200

(* ------------------------------ C30 ------------------------------------ *)

\* C30: after any interleaving of registerCategory and updateCategory
\* requests no two stored categories share a name; registerCategory with a
\* stored name fails with 409 "La categoría ya existe" and updateCategory
\* of an id that does not exist fails with 404, both leaving the table
\* unchanged.
C30_CategoryNamesUnique ==
    /\ \A a, b \in categories : a.name = b.name => a = b
    /\ \A r \in Requests :
          (Done(r) /\ obs[r].why = "category_exists")
          => resp[r] = Json(409, [message |-> "La categoría ya existe"])
    /\ \A r \in Requests :
          (Done(r) /\ obs[r].why = "category_not_found")
          => resp[r].status = 404

====
